---------------------------- MODULE Spec2Model ----------------------------
(* A model of the Wordle decision engine and game session of src/app.py:    *)
(* the pattern engine (generate_pattern_matrix, get_pattern, the on-disk    *)
(* pattern matrix), the possibility reducer (get_possible_words), the guess *)
(* selector (get_weights, get_entropies, optimal_guess, get_next_guess) and *)
(* the Streamlit session (input_guess, the script body, Restart Game).      *)
(*                                                                          *)
(* A word is a sequence of one-character strings.  A pattern is the uint8   *)
(* value numpy computes.  Python exceptions are modelled as the value of    *)
(* the field or variable that records the outcome of the call.              *)
EXTENDS Integers, Sequences, FiniteSets, TLC

VARIABLES
    io,             \* the engine call under study: its arguments and outcome
    pattern_file,   \* data/pattern_matrix.npy: [exists, grid]
    freq_file,      \* data/freq_map.json: [exists, map], map a sequence of
                    \* [word, freq] in key order
    guesses,        \* st.session_state["guesses"]
    patterns,       \* st.session_state["patterns"]
    possibilities,  \* st.session_state["possibilities"]
    next_guess_map, \* st.session_state["next_guess_map"]: set of [key, guess]
    game_over,      \* st.session_state["game_over"]
    game_won,       \* st.session_state["game_won"]
    answer,         \* st.session_state["answer"]
    priors,         \* st.session_state["priors"]: set of [word, prior]
    suggestions,    \* st.session_state["suggestions"]: sequence of <<word, bits>>
    table,          \* st.session_state["table"]: row number -> word shown
    st_error,       \* the st.error message of the last callback, "" if none
    run_error,      \* the exception that ended the last run, "" if none
    rendered,       \* whether the last run executed the script body, so that
                    \* its widgets are on the page
    optimal_calls,  \* history: the optimal_guess calls get_next_guess made
                    \* this game, each [key, cached]
    returned,       \* history: the [key, guess] get_next_guess returned this
                    \* game, one per call
    pattern_calls   \* history: the guesses handed to get_pattern this game

session == <<guesses, patterns, possibilities, next_guess_map, game_over,
             game_won, answer, priors, suggestions, table, st_error, run_error,
             rendered>>

history == <<optimal_calls, returned, pattern_calls>>

vars == <<io, pattern_file, freq_file, session, history>>

----------------------------------------------------------------------------
(* Generic helpers on sequences.                                            *)

Range(s) == {s[i] : i \in 1..Len(s)}

Min(S) == CHOOSE x \in S : \A y \in S : x <= y

Max(S) == CHOOSE x \in S : \A y \in S : x >= y

RECURSIVE Pow(_, _)
Pow(b, e) == IF e = 0 THEN 1 ELSE b * Pow(b, e - 1)

RECURSIVE SumSeq(_)
SumSeq(s) == IF s = <<>> THEN 0 ELSE s[1] + SumSeq(Tail(s))

----------------------------------------------------------------------------
(* Program constants.                                                       *)

MISPLACED == 1
EXACT == 2
UINT8 == 256
WordLength == 5

----------------------------------------------------------------------------
(* Bounds of the model.                                                     *)

\* how many letters of Alphabet the words of the pattern specification use
NumLetters == 3

Alphabet == <<"A", "B", "C", "D", "E">>

Letters == {Alphabet[i] : i \in 1..NumLetters}

AllWords == [1..WordLength -> Letters]

----------------------------------------------------------------------------
(* The pattern engine: generate_pattern_matrix for one (guess, answer)      *)
(* pair.  numpy applies the same steps to every pair of the two word lists  *)
(* at once through boolean masks; the matrix is the table of the per-pair   *)
(* results.  Positions are 1-based here, 0-based in the source.             *)

\* equality_grid[a, b, i, j] for one pair, as the set of <<i, j>> that are True.
\* nl is len(words1[0]): the length of the guess.
EqualityGrid(guess, ans) ==
    {<<i, j>> \in (1..Len(guess)) \X (1..Len(guess)) : guess[i] = ans[j]}

\* a faulty covering that clears the guess letter only and leaves the answer
\* letter available to later matches (sensitivity variant for C1)
CoverGuessOnly(grid, i, j) == {p \in grid : p[1] /= i}

\* "mark all elements associated with that letter, both from the guess and
\* answer, as covered": equality_grid[k, j] = equality_grid[i, k] = False.
Cover(grid, i, j) == {p \in grid : p[1] /= i /\ p[2] /= j}

\* Green pass, from position i on.  st = [grid, pattern].
RECURSIVE GreenPass(_, _, _)
GreenPass(st, i, nl) ==
    IF i > nl THEN st
    ELSE IF <<i, i>> \in st.grid
         THEN GreenPass([grid |-> Cover(st.grid, i, i),
                         pattern |-> [st.pattern EXCEPT ![i] = EXACT]],
                        i + 1, nl)
         ELSE GreenPass(st, i + 1, nl)

\* Yellow pass over it.product(range(nl), range(nl)), from the t-th pair on.
RECURSIVE YellowPass(_, _, _)
YellowPass(st, t, nl) ==
    IF t >= nl * nl THEN st
    ELSE LET i == (t \div nl) + 1
             j == (t % nl) + 1
         IN  IF <<i, j>> \in st.grid
             THEN YellowPass([grid |-> Cover(st.grid, i, j),
                              pattern |-> [st.pattern EXCEPT ![i] = MISPLACED]],
                             t + 1, nl)
             ELSE YellowPass(st, t + 1, nl)

\* full_pattern_matrix[a, b, :] for one pair.
FullPattern(guess, ans) ==
    LET nl == Len(guess)
        start == [grid |-> EqualityGrid(guess, ans),
                  pattern |-> [i \in 1..nl |-> 0]]
    IN  YellowPass(GreenPass(start, 1, nl), 0, nl).pattern

\* np.dot(full_pattern_matrix, (3**np.arange(nl)).astype(np.uint8)): both
\* operands are uint8, so the powers, the products and the sum are all
\* reduced modulo 2^8.
RECURSIVE DotUint8(_, _)
DotUint8(colours, i) ==
    IF i > Len(colours) THEN 0
    ELSE (((colours[i] * (Pow(3, i - 1) % UINT8)) % UINT8)
          + DotUint8(colours, i + 1)) % UINT8

PatternOfPair(guess, ans) == DotUint8(FullPattern(guess, ans), 1)

\* generate_pattern_matrix(words1, words2): a sequence of rows.
generate_pattern_matrix(words1, words2) ==
    [a \in 1..Len(words1) |->
            [b \in 1..Len(words2) |-> PatternOfPair(words1[a], words2[b])]]

----------------------------------------------------------------------------
(* The standard two-pass Wordle colouring, stated independently of the      *)
(* code: exact matches first, then misplaced letters left to right, each    *)
(* claiming the lowest answer position not yet consumed.                    *)

ExactPositions(guess, ans) == {i \in 1..Len(guess) : guess[i] = ans[i]}

\* colours of positions i..L given the answer positions consumed so far
RECURSIVE StandardFrom(_, _, _, _)
StandardFrom(guess, ans, i, consumed) ==
    IF i > Len(guess) THEN <<>>
    ELSE IF guess[i] = ans[i]
         THEN <<2>> \o StandardFrom(guess, ans, i + 1, consumed)
         ELSE LET free == {j \in 1..Len(ans) :
                              j \notin consumed /\ ans[j] = guess[i]}
              IN  IF free = {}
                  THEN <<0>> \o StandardFrom(guess, ans, i + 1, consumed)
                  ELSE <<1>> \o StandardFrom(guess, ans, i + 1,
                                             consumed \cup {Min(free)})

StandardColouring(guess, ans) ==
    StandardFrom(guess, ans, 1, ExactPositions(guess, ans))

\* sum of c_i * 3^i over the integers, first letter least significant
RECURSIVE Base3(_, _)
Base3(colours, i) ==
    IF i > Len(colours) THEN 0
    ELSE colours[i] * Pow(3, i - 1) + Base3(colours, i + 1)

StandardPattern(guess, ans) == Base3(StandardColouring(guess, ans), 1)

----------------------------------------------------------------------------
(* The word corpus.  SHORT_WORD_LIST_FILE is never read by the session:     *)
(* get_word_list(), DICT_GUESSING and DICT_ANSWERS are all loaded from      *)
(* data/wordle-answers.txt, upper-cased, in file order.                     *)

WordListFile ==
    << <<"T","R","A","C","E">>, <<"S","T","A","R","E">>,
       <<"S","N","A","R","E">>, <<"S","L","A","T","E">>,
       <<"R","A","I","S","E">>, <<"I","R","A","T","E">>,
       <<"C","R","A","T","E">>, <<"C","R","A","N","E">>,
       <<"A","R","O","S","E">>, <<"E","R","A","S","E">>,
       <<"A","R","I","S","E">> >>

get_word_list == WordListFile

DICT_GUESSING == WordListFile

DICT_ANSWERS == WordListFile

CHUNK_LENGTH == 13000

\* chunks(lst, n): successive n-sized chunks of lst
RECURSIVE chunks(_, _)
chunks(lst, n) ==
    IF lst = <<>> THEN <<>>
    ELSE IF Len(lst) <= n THEN <<lst>>
         ELSE <<SubSeq(lst, 1, n)>> \o chunks(SubSeq(lst, n + 1, Len(lst)), n)

\* np.hstack((row, block)): the rows of block appended to the rows of row
HStack(row, block) == [a \in 1..Len(row) |-> row[a] \o block[a]]

\* the inner loop of generate_pattern_matrix_in_blocks: one row of blocks
RECURSIVE BlockRow(_, _, _)
BlockRow(words1, chunks2, k) ==
    IF k = 1 THEN generate_pattern_matrix(words1, chunks2[1])
    ELSE HStack(BlockRow(words1, chunks2, k - 1),
                generate_pattern_matrix(words1, chunks2[k]))

\* the outer loop: np.vstack of the rows of blocks
RECURSIVE BlockRows(_, _, _)
BlockRows(chunks1, chunks2, k) ==
    IF k = 0 THEN <<>>
    ELSE BlockRows(chunks1, chunks2, k - 1)
            \o BlockRow(chunks1[k], chunks2, Len(chunks2))

generate_pattern_matrix_in_blocks(many_words1, many_words2, block_length) ==
    LET chunks1 == chunks(many_words1, block_length)
        chunks2 == chunks(many_words2, block_length)
    IN  BlockRows(chunks1, chunks2, Len(chunks1))

\* the matrix generate_full_pattern_matrix saves when the word list is words
FullPatternMatrixOf(words) ==
    generate_pattern_matrix_in_blocks(words, words, CHUNK_LENGTH)

generate_full_pattern_matrix == FullPatternMatrixOf(get_word_list)

----------------------------------------------------------------------------
(* The pattern matrix cache.  PATTERN_GRID_DATA is a module global, and     *)
(* Streamlit executes the module anew for every script run, so it is empty  *)
(* at the start of a run; it is carried here as the field data of env, next *)
(* to the file on disk.                                                     *)

AbsentFile == [exists |-> FALSE, grid |-> <<>>]

EmptyGridData == [loaded |-> FALSE, grid |-> <<>>, words |-> <<>>]

\* dict(zip(words, it.count()))[w]: a repeated word keeps its last index
IndexOf(words, w) == Max({i \in 1..Len(words) : words[i] = w})

\* the first block of get_pattern_matrix: generate the file if it does not
\* exist, then load it (whatever it holds) and index the current word list
LoadGrid(env) ==
    LET Load(file) == [file |-> file,
                       data |-> [loaded |-> TRUE, grid |-> file.grid,
                                 words |-> get_word_list]]
    IN  IF env.data.loaded THEN env
        ELSE Load(IF env.file.exists THEN env.file
                  ELSE [exists |-> TRUE, grid |-> generate_full_pattern_matrix])

\* get_pattern_matrix(words1, words2): [env, err, result]
get_pattern_matrix(env, words1, words2) ==
    LET Select(env1, full_grid, words_to_index) ==
            LET known == Range(words_to_index)
                indices1 == [a \in 1..Len(words1) |->
                                    IndexOf(words_to_index, words1[a])]
                indices2 == [b \in 1..Len(words2) |->
                                    IndexOf(words_to_index, words2[b])]
            IN  IF ~(Range(words1) \subseteq known
                        /\ Range(words2) \subseteq known)
                THEN [env |-> env1, err |-> "KeyError", result |-> <<>>]
                ELSE IF \/ \E a \in 1..Len(words1) :
                              indices1[a] > Len(full_grid)
                        \/ \E a \in 1..Len(words1), b \in 1..Len(words2) :
                              indices2[b] > Len(full_grid[indices1[a]])
                     THEN [env |-> env1, err |-> "IndexError", result |-> <<>>]
                     ELSE [env |-> env1, err |-> "",
                           result |->
                             [a \in 1..Len(words1) |->
                                    [b \in 1..Len(words2) |->
                                        full_grid[indices1[a]][indices2[b]]]]]
        Loaded(env1) == Select(env1, env1.data.grid, env1.data.words)
    IN  Loaded(LoadGrid(env))

\* get_pattern(guess, answer): [env, err, result]
get_pattern(env, guess, ans) ==
    IF /\ env.data.loaded
       /\ guess \in Range(env.data.words)
       /\ ans \in Range(env.data.words)
    THEN LET Entry(m) == [env |-> m.env, err |-> m.err,
                          result |-> IF m.err = "" THEN m.result[1][1] ELSE 0]
         IN  Entry(get_pattern_matrix(env, <<guess>>, <<ans>>))
    ELSE [env |-> env, err |-> "",
          result |-> generate_pattern_matrix(<<guess>>, <<ans>>)[1][1]]

----------------------------------------------------------------------------
(* The possibility reducer.                                                 *)

\* np.array(word_list)[mask] as a list: the words at the True positions
RECURSIVE MaskSelect(_, _, _)
MaskSelect(word_list, mask, k) ==
    IF k > Len(word_list) THEN <<>>
    ELSE (IF mask[k] THEN <<word_list[k]>> ELSE <<>>)
            \o MaskSelect(word_list, mask, k + 1)

\* get_possible_words(guess, pattern, word_list): [env, err, result]
get_possible_words(env, guess, pattern, word_list) ==
    LET Filter(m) ==
            IF m.err /= "" THEN [env |-> m.env, err |-> m.err, result |-> <<>>]
            ELSE LET all_patterns == m.result[1]
                     mask == [k \in 1..Len(word_list) |->
                                    all_patterns[k] = pattern]
                 IN  [env |-> m.env, err |-> "",
                      result |-> MaskSelect(word_list, mask, 1)]
    IN  Filter(get_pattern_matrix(env, <<guess>>, word_list))

----------------------------------------------------------------------------
(* The frequency prior model.  Real numbers are carried in fixed point: a   *)
(* position on the number line as a fraction num/den, a prior in units of   *)
(* 1/16, an entropy in millionths of a bit.                                 *)

Abs(x) == IF x < 0 THEN -x ELSE x

\* get_word_frequencies(regenerate): [err, map].  WORD_FREQ_FILE is the very
\* path 'data/freq_map.json' whose absence sends the code to the rebuild, so
\* the rebuild opens a file that does not exist.
get_word_frequencies(file, regenerate) ==
    IF file.exists \/ regenerate
    THEN IF file.exists THEN [err |-> "", map |-> file.map]
         ELSE [err |-> "FileNotFoundError", map |-> <<>>]
    ELSE [err |-> "FileNotFoundError", map |-> <<>>]

\* sigmoid(x) for x = num/den, den > 0, in units of 1/16: a monotone step
\* function that is 8 at 0, above 8 exactly for x > 0, never 0, and 16 where
\* the float result is exactly 1.0 (exp(-x) below 2^-53, x >= 37).
sigmoid(num, den) ==
    IF num = 0 THEN 8
    ELSE LET m == Abs(num) \div den
             t == IF m >= 3 THEN 7 ELSE IF m = 2 THEN 6
                  ELSE IF m = 1 THEN 4 ELSE 1
         IN  IF num > 0 THEN (IF m >= 37 THEN 16 ELSE 8 + t) ELSE 8 - t

\* the position of freqs.argsort(): how many entries sort before entry k
\* (equal frequencies keep their key order)
SortedRank(map, k) ==
    Cardinality({i \in 1..Len(map) :
        \/ map[i].freq < map[k].freq
        \/ (map[i].freq = map[k].freq /\ i < k)})

\* np.linspace(c - x_width / 2, c + x_width / 2, len(words))[r] as num/den,
\* with c = x_width * (-0.5 + n_common / len(words))
LinspaceNum(r, n, n_common, x_width) ==
    IF n = 1 THEN x_width * (n_common - 1)
    ELSE x_width * (n_common * (n - 1) - n * (n - 1) + r * n)

LinspaceDen(n) == IF n = 1 THEN 1 ELSE n * (n - 1)

\* get_frequency_based_priors(n_common, width_under_sigmoid): [err, priors],
\* priors a function from the words of the frequency map
get_frequency_based_priors(file, n_common, width_under_sigmoid) ==
    LET f == get_word_frequencies(file, FALSE)
        n == Len(f.map)
    IN  IF f.err /= "" THEN [err |-> f.err, priors |-> <<>>]
        ELSE IF n = 0 THEN [err |-> "ZeroDivisionError", priors |-> <<>>]
        ELSE [err |-> "",
              priors |->
                [w \in {f.map[k].word : k \in 1..n} |->
                    LET k == CHOOSE k \in 1..n : f.map[k].word = w
                    IN  sigmoid(LinspaceNum(SortedRank(f.map, k), n,
                                            n_common, width_under_sigmoid),
                                LinspaceDen(n))]]

N_COMMON == 3000

WIDTH_UNDER_SIGMOID == 10

\* get_weights(words, priors): [err, weights, total]; the weights are the
\* fractions weights[k] / total, all zero when total is 0
get_weights(words, prior) ==
    IF \E k \in 1..Len(words) : words[k] \notin DOMAIN prior
    THEN [err |-> "KeyError", weights |-> <<>>, total |-> 0]
    ELSE LET frequencies == [k \in 1..Len(words) |-> prior[words[k]]]
         IN  [err |-> "", weights |-> frequencies,
              total |-> SumSeq(frequencies)]

----------------------------------------------------------------------------
(* The entropy scorer.                                                      *)

\* round(10^6 * log2(k)), k = 1..176
Log2Table ==
    << 0, 1000000, 1584963, 2000000, 2321928, 2584963, 2807355, 3000000,
       3169925, 3321928, 3459432, 3584963, 3700440, 3807355, 3906891, 4000000,
       4087463, 4169925, 4247928, 4321928, 4392317, 4459432, 4523562, 4584963,
       4643856, 4700440, 4754888, 4807355, 4857981, 4906891, 4954196, 5000000,
       5044394, 5087463, 5129283, 5169925, 5209453, 5247928, 5285402, 5321928,
       5357552, 5392317, 5426265, 5459432, 5491853, 5523562, 5554589, 5584963,
       5614710, 5643856, 5672425, 5700440, 5727920, 5754888, 5781360, 5807355,
       5832890, 5857981, 5882643, 5906891, 5930737, 5954196, 5977280, 6000000,
       6022368, 6044394, 6066089, 6087463, 6108524, 6129283, 6149747, 6169925,
       6189825, 6209453, 6228819, 6247928, 6266787, 6285402, 6303781, 6321928,
       6339850, 6357552, 6375039, 6392317, 6409391, 6426265, 6442943, 6459432,
       6475733, 6491853, 6507795, 6523562, 6539159, 6554589, 6569856, 6584963,
       6599913, 6614710, 6629357, 6643856, 6658211, 6672425, 6686501, 6700440,
       6714246, 6727920, 6741467, 6754888, 6768184, 6781360, 6794416, 6807355,
       6820179, 6832890, 6845490, 6857981, 6870365, 6882643, 6894818, 6906891,
       6918863, 6930737, 6942515, 6954196, 6965784, 6977280, 6988685, 7000000,
       7011227, 7022368, 7033423, 7044394, 7055282, 7066089, 7076816, 7087463,
       7098032, 7108524, 7118941, 7129283, 7139551, 7149747, 7159871, 7169925,
       7179909, 7189825, 7199672, 7209453, 7219169, 7228819, 7238405, 7247928,
       7257388, 7266787, 7276124, 7285402, 7294621, 7303781, 7312883, 7321928,
       7330917, 7339850, 7348728, 7357552, 7366322, 7375039, 7383704, 7392317,
       7400879, 7409391, 7417853, 7426265, 7434628, 7442943, 7451211, 7459432 >>

Log2Micro(k) == Log2Table[k]

RECURSIVE SumOver(_, _)
SumOver(S, f) ==
    IF S = {} THEN 0
    ELSE LET x == CHOOSE x \in S : TRUE
         IN  f[x] + SumOver(S \ {x}, f)

\* one row of get_pattern_distributions: pattern -> accumulated weight
Distribution(row, weights) ==
    [pat \in Range(row) |->
            SumOver({j \in 1..Len(row) : row[j] = pat}, weights)]

\* scipy.stats.entropy(distribution, base=2) in millionths of a bit: the
\* distribution is normalised by its sum; a zero bucket contributes nothing
entropy(dist) ==
    LET total == SumOver(DOMAIN dist, dist)
        plogp == [pat \in DOMAIN dist |->
                        IF dist[pat] = 0 THEN 0
                        ELSE dist[pat] * Log2Micro(dist[pat])]
    IN  (total * Log2Micro(total) - SumOver(DOMAIN dist, plogp)) \div total

\* get_entropies(allowed_words, possible_words, weights): [env, err, ents]
get_entropies(env, allowed_words, possible_words, weights) ==
    IF SumSeq(weights) = 0
    THEN [env |-> env, err |-> "",
          ents |-> [a \in 1..Len(allowed_words) |-> 0]]
    ELSE LET RowEntropies(m) ==
                IF m.err /= ""
                THEN [env |-> m.env, err |-> m.err, ents |-> <<>>]
                ELSE [env |-> m.env, err |-> "",
                      ents |-> [a \in 1..Len(allowed_words) |->
                                entropy(Distribution(m.result[a], weights))]]
         IN  RowEntropies(get_pattern_matrix(env, allowed_words,
                                             possible_words))

----------------------------------------------------------------------------
(* The guess selector.                                                      *)

TOP_N == 10

\* the index sets np.argsort(ents)[-10:] may hold: the ten (or all, if
\* fewer) indices of largest entropy; numpy's default sort leaves the order
\* of equal entropies open, so a tie at the cut may fall either way
TopSets(ents) ==
    IF Len(ents) <= TOP_N THEN {1..Len(ents)}
    ELSE {S \in SUBSET (1..Len(ents)) :
            /\ Cardinality(S) = TOP_N
            /\ \A i \in S, j \in (1..Len(ents)) \ S : ents[i] >= ents[j]}

\* sorted(ents)[-10:]: the values at the indices of top, ascending
RECURSIVE AscendingValues(_, _)
AscendingValues(ents, top) ==
    IF top = {} THEN <<>>
    ELSE LET i == CHOOSE i \in top : \A j \in top : ents[i] <= ents[j]
         IN  <<ents[i]>> \o AscendingValues(ents, top \ {i})

\* sorted(np.argsort(ents)[-10:])[::-1]: the indices of top, descending
RECURSIVE DescendingIndices(_)
DescendingIndices(top) ==
    IF top = {} THEN <<>>
    ELSE <<Max(top)>> \o DescendingIndices(top \ {Max(top)})

\* np.argmax(ents): the first index of the maximum
ArgMax(ents) ==
    CHOOSE i \in 1..Len(ents) :
        /\ \A j \in 1..Len(ents) : ents[j] <= ents[i]
        /\ \A j \in 1..(i - 1) : ents[j] < ents[i]

NoWord == <<>>

\* the scored list optimal_guess sorts: [env, err, ents], or reached = FALSE
\* when the call returns or raises before scoring
Scores(env, allowed_words, possible_words, prior) ==
    LET Scored(e) == [reached |-> e.err = "", env |-> e.env, err |-> e.err,
                      ents |-> e.ents]
        Weighted(w) ==
            IF w.err /= ""
            THEN [reached |-> FALSE, env |-> env, err |-> w.err, ents |-> <<>>]
            ELSE Scored(get_entropies(env, allowed_words, possible_words,
                                      w.weights))
    IN  IF Len(possible_words) = 1
        THEN [reached |-> FALSE, env |-> env, err |-> "", ents |-> <<>>]
        ELSE Weighted(get_weights(possible_words, prior))

\* the choices of np.argsort(ents)[-10:] one call of optimal_guess has
TopChoices(env, allowed_words, possible_words, prior) ==
    LET Tops(sc) == IF sc.reached THEN TopSets(sc.ents) ELSE {{}}
    IN  Tops(Scores(env, allowed_words, possible_words, prior))

\* a faulty optimal_guess without the shortcut for a single possibility
\* (sensitivity variant for C16)
optimal_guess_no_shortcut(env, allowed_words, possible_words, prior, sugg, top) ==
    LET w == get_weights(possible_words, prior)
        Rank(e) ==
            IF e.err /= "" \/ Len(allowed_words) < TOP_N
            THEN [env |-> e.env,
                  err |-> IF e.err /= "" THEN e.err ELSE "IndexError",
                  result |-> NoWord, suggestions |-> sugg]
            ELSE [env |-> e.env, err |-> "",
                  result |-> allowed_words[ArgMax(e.ents)],
                  suggestions |-> sugg]
    IN  IF w.err /= ""
        THEN [env |-> env, err |-> w.err, result |-> NoWord,
              suggestions |-> sugg]
        ELSE Rank(get_entropies(env, allowed_words, possible_words,
                                w.weights))

\* optimal_guess(allowed_words, possible_words, priors), with top the value
\* of np.argsort(ents)[-10:] as a set and sugg the session's suggestions:
\* [env, err, result, suggestions]
optimal_guess(env, allowed_words, possible_words, prior, sugg, top) ==
    LET Pick(sc) ==
            IF ~sc.reached
            THEN [env |-> sc.env, err |-> sc.err, result |-> NoWord,
                  suggestions |-> sugg]
            ELSE LET top_ent == AscendingValues(sc.ents, top)
                     top_i == DescendingIndices(top)
                     top_guesses == [i \in 1..Len(top_i) |->
                                            allowed_words[top_i[i]]]
                     stored == IF Len(top_guesses) < TOP_N
                               THEN Len(top_guesses) ELSE TOP_N
                     new_sugg == [i \in 1..stored |->
                                        <<top_guesses[i], top_ent[i]>>]
                 IN  IF Len(top_guesses) < TOP_N
                     THEN [env |-> sc.env, err |-> "IndexError",
                           result |-> NoWord, suggestions |-> new_sugg]
                     ELSE [env |-> sc.env, err |-> "",
                           result |-> allowed_words[ArgMax(sc.ents)],
                           suggestions |-> new_sugg]
    IN  IF Len(possible_words) = 1
        THEN [env |-> env, err |-> "", result |-> possible_words[1],
              suggestions |-> sugg]
        ELSE Pick(Scores(env, allowed_words, possible_words, prior))

\* pattern_to_int_list(pattern): five base-3 digits, least significant first
RECURSIVE pattern_to_int_list_from(_, _)
pattern_to_int_list_from(curr, x) ==
    IF x = 5 THEN <<>>
    ELSE <<curr % 3>> \o pattern_to_int_list_from(curr \div 3, x + 1)

pattern_to_int_list(pattern) == pattern_to_int_list_from(pattern, 0)

\* str(d) for a digit d
DigitString(d) == <<"0", "1", "2">>[d + 1]

\* the key of get_next_guess: for each (g, p) of zip(guesses, patterns) the
\* characters of g followed by the five digits of p; a string is modelled as
\* the sequence of its characters
RECURSIVE phash(_, _)
phash(gs, ps) ==
    IF gs = <<>> \/ ps = <<>> THEN <<>>
    ELSE LET digits == pattern_to_int_list(ps[1])
         IN  gs[1] \o [x \in 1..Len(digits) |-> DigitString(digits[x])]
                   \o phash(Tail(gs), Tail(ps))

Keys(map) == {e.key : e \in map}

Lookup(map, key) == (CHOOSE e \in map : e.key = key).guess

\* a faulty get_next_guess that never consults next_guess_map (sensitivity
\* variant for C7)
get_next_guess_uncached(env, gs, ps, poss, map, prior, sugg, top) ==
    LET StoreAlways(key, o) ==
            [env |-> o.env, err |-> o.err, result |-> o.result,
             map |-> IF o.err = ""
                     THEN {e \in map : e.key /= key}
                            \cup {[key |-> key, guess |-> o.result]}
                     ELSE map,
             suggestions |-> o.suggestions, key |-> key, computed |-> TRUE]
    IN  StoreAlways(phash(gs, ps),
                    optimal_guess(env, DICT_ANSWERS, poss, prior, sugg, top))

\* get_next_guess(guesses, patterns, possibilities):
\* [env, err, result, map, suggestions, key, computed], computed saying
\* whether optimal_guess was called
get_next_guess(env, gs, ps, poss, map, prior, sugg, top) ==
    LET Store(key, o) ==
            [env |-> o.env, err |-> o.err, result |-> o.result,
             map |-> IF o.err = ""
                     THEN map \cup {[key |-> key, guess |-> o.result]}
                     ELSE map,
             suggestions |-> o.suggestions, key |-> key, computed |-> TRUE]
        Keyed(key) ==
            IF key \notin Keys(map)
            THEN Store(key, optimal_guess(env, DICT_ANSWERS, poss, prior,
                                          sugg, top))
            ELSE [env |-> env, err |-> "", result |-> Lookup(map, key),
                  map |-> map, suggestions |-> sugg, key |-> key,
                  computed |-> FALSE]
    IN  Keyed(phash(gs, ps))

\* analyze_guesses(guess, possibilities), given the session's answer,
\* guesses, patterns, next_guess_map, priors and suggestions.  stage tells
\* how far the call got: "pattern" (get_possible_words raised), "next"
\* (get_next_guess raised) or "done".
analyze_guesses(env, guess, poss, ans, gs, ps, map, prior, sugg, top) ==
    LET Advised(ps1, red, nxt) ==
            IF nxt.err /= ""
            THEN [env |-> nxt.env, err |-> nxt.err, stage |-> "next",
                  patterns |-> ps1, result |-> poss, map |-> nxt.map,
                  suggestions |-> nxt.suggestions, next |-> nxt]
            ELSE [env |-> nxt.env, err |-> "", stage |-> "done",
                  patterns |-> ps1, result |-> red.result, map |-> nxt.map,
                  suggestions |-> nxt.suggestions, next |-> nxt]
        Reduced(ps1, red) ==
            IF red.err /= ""
            THEN [env |-> red.env, err |-> red.err, stage |-> "pattern",
                  patterns |-> ps1, result |-> poss, map |-> map,
                  suggestions |-> sugg, next |-> [computed |-> FALSE]]
            ELSE Advised(ps1, red,
                         get_next_guess(red.env, gs, ps1, red.result, map,
                                        prior, sugg, top))
        Recorded(pat) ==
            Reduced(Append(ps, pat.result),
                    get_possible_words(pat.env, guess, pat.result, poss))
    IN  Recorded(get_pattern(env, guess, ans))

\* the values np.argsort(ents)[-10:] may take inside analyze_guesses
AnalyzeChoices(env, guess, poss, ans, gs, ps, map, prior) ==
    LET ReducedChoices(ps1, red) ==
            IF red.err /= "" \/ phash(gs, ps1) \in Keys(map) THEN {{}}
            ELSE TopChoices(red.env, DICT_ANSWERS, red.result, prior)
        RecordedChoices(pat) ==
            ReducedChoices(Append(ps, pat.result),
                           get_possible_words(pat.env, guess, pat.result, poss))
    IN  RecordedChoices(get_pattern(env, guess, ans))

----------------------------------------------------------------------------
(* The Streamlit session.                                                   *)

UpperCase == <<"A", "C", "D", "E", "I", "L", "N", "O", "P", "R", "S", "T">>

LowerCase == <<"a", "c", "d", "e", "i", "l", "n", "o", "p", "r", "s", "t">>

\* str.upper() and str.lower(), on the letters the model uses
upper(word) ==
    [i \in 1..Len(word) |->
        IF \E k \in 1..Len(LowerCase) : LowerCase[k] = word[i]
        THEN UpperCase[CHOOSE k \in 1..Len(LowerCase) : LowerCase[k] = word[i]]
        ELSE word[i]]

lower(word) ==
    [i \in 1..Len(word) |->
        IF \E k \in 1..Len(UpperCase) : UpperCase[k] = word[i]
        THEN LowerCase[CHOOSE k \in 1..Len(UpperCase) : UpperCase[k] = word[i]]
        ELSE word[i]]

\* initialize_table(): rows 'Guess 1'..'Guess 6' of five empty cells
initialize_table == [r \in 1..6 |-> [c \in 1..5 |-> ""]]

\* the default guess suggestions, keys "0".."9", bits in millionths
DefaultSuggestions ==
    << << <<"t","r","a","c","e">>, 5800364 >>,
       << <<"s","t","a","r","e">>, 5820775 >>,
       << <<"s","n","a","r","e">>, 5823404 >>,
       << <<"s","l","a","t","e">>, 5872115 >>,
       << <<"r","a","i","s","e">>, 5877133 >>,
       << <<"i","r","a","t","e">>, 5885710 >>,
       << <<"c","r","a","t","e">>, 5895913 >>,
       << <<"c","r","a","n","e">>, 5896998 >>,
       << <<"a","r","o","s","e">>, 5901519 >>,
       << <<"a","r","i","s","e">>, 5910760 >> >>

\* list(filter(lambda w: priors[w] > 0, DICT_ANSWERS)): [err, result]
InitialPossibilities(prior) ==
    IF \E k \in 1..Len(DICT_ANSWERS) : DICT_ANSWERS[k] \notin DOMAIN prior
    THEN [err |-> "KeyError", result |-> <<>>]
    ELSE [err |-> "", result |-> SelectSeq(DICT_ANSWERS, LAMBDA w : prior[w] > 0)]

\* get_stats(data): every entry is inserted at the front of both columns
get_stats(data) ==
    [picks |-> [k \in 1..Len(data) |-> lower(data[Len(data) + 1 - k][1])],
     bits  |-> [k \in 1..Len(data) |-> data[Len(data) + 1 - k][2]]]

\* input_guess() for the text typed into the guess field:
\* [err, guesses, table, game_over, game_won, st_error]
input_guess(typed, gs, tbl, ans, over, won) ==
    LET guess == upper(typed)
        gs1 == Append(gs, guess)
        n == Len(gs1)
    IN  IF Len(guess) = WordLength
        THEN IF guess \in Range(DICT_GUESSING)
             THEN IF n \notin DOMAIN tbl
                  THEN [err |-> "KeyError", guesses |-> gs1, table |-> tbl,
                        game_over |-> over, game_won |-> won, st_error |-> ""]
                  ELSE [err |-> "", guesses |-> gs1,
                        table |-> [tbl EXCEPT ![n] = guess],
                        game_over |-> (guess = ans \/ Len(gs1) = 6),
                        game_won |-> (guess = ans), st_error |-> ""]
             ELSE [err |-> "", guesses |-> gs1, table |-> tbl,
                   game_over |-> over, game_won |-> won,
                   st_error |-> "Please enter a valid guess."]
        ELSE [err |-> "", guesses |-> gs1, table |-> tbl,
              game_over |-> over, game_won |-> won,
              st_error |-> "Please enter a 5-letter word."]

\* The script body from the Wordle tab on, for a session whose guesses are
\* gs: analyze_guesses on the last guess when there is one.  PATTERN_GRID_DATA
\* is empty when the body starts.
ScriptBody(gs, top) ==
    IF gs = <<>>
    THEN /\ UNCHANGED <<pattern_file, patterns, possibilities,
                        next_guess_map, suggestions, history>>
         /\ run_error' = ""
    ELSE \E a \in {analyze_guesses(
                        [file |-> pattern_file, data |-> EmptyGridData],
                        gs[Len(gs)], possibilities, answer, gs, patterns,
                        next_guess_map, priors, suggestions, top)} :
             /\ pattern_file' = a.env.file
             /\ patterns' = a.patterns
             /\ possibilities' = a.result
             /\ next_guess_map' = a.map
             /\ suggestions' = a.suggestions
             /\ run_error' = a.err
             /\ pattern_calls' = pattern_calls \cup {gs[Len(gs)]}
             /\ optimal_calls' =
                    IF a.next.computed
                    THEN Append(optimal_calls,
                                [key |-> a.next.key,
                                 cached |-> a.next.key \in Keys(next_guess_map)])
                    ELSE optimal_calls
             /\ returned' =
                    IF a.stage = "done"
                    THEN Append(returned, [key |-> a.next.key,
                                           guess |-> a.next.result])
                    ELSE returned

BodyChoices(gs) ==
    IF gs = <<>> THEN {{}}
    ELSE AnalyzeChoices([file |-> pattern_file, data |-> EmptyGridData],
                        gs[Len(gs)], possibilities, answer, gs, patterns,
                        next_guess_map, priors)

----------------------------------------------------------------------------
(* Bounds of the game specification.                                        *)

\* Submit is disabled once guesses holds MaxGuesses entries
MaxGuesses == 2

\* no run is started once patterns holds MaxPatterns entries
MaxPatterns == 3

\* the texts typed into the guess field: words of the corpus (one in lower
\* case), a five-letter word not in the corpus, and a two-letter text
TypedGuesses ==
    { <<"a","r","o","s","e">>, <<"R","A","I","S","E">>,
      <<"S","P","E","E","D">>, <<"S","O">> }

\* data/freq_map.json as shipped: every corpus word, distinct frequencies
FreqMapFile ==
    [exists |-> TRUE,
     map |-> [k \in 1..Len(WordListFile) |->
                [word |-> WordListFile[k], freq |-> k]]]

\* data/pattern_matrix.npy as the program leaves it for the current word list
BuiltPatternFile == [exists |-> TRUE, grid |-> generate_full_pattern_matrix]

\* The file outlives the word list it was generated from.  Word lists that
\* data/wordle-answers.txt held when the file was generated: the current
\* list, the list in the opposite order, and the list before its last word
\* was added.
ReorderedWordList ==
    [k \in 1..Len(WordListFile) |-> WordListFile[Len(WordListFile) + 1 - k]]

ShorterWordList == SubSeq(WordListFile, 1, Len(WordListFile) - 1)

OldWordLists == {WordListFile, ReorderedWordList, ShorterWordList}

\* what may be on disk at data/pattern_matrix.npy when a run starts
PatternFiles ==
    {AbsentFile} \cup
    {[exists |-> TRUE, grid |-> FullPatternMatrixOf(l)] : l \in OldWordLists}

----------------------------------------------------------------------------
(* The game specification: one session from its first script run on.        *)

\* the session state initialization block, for the answer random.choice drew
Init ==
    LET pr == get_frequency_based_priors(FreqMapFile, N_COMMON,
                                         WIDTH_UNDER_SIGMOID)
    IN  /\ io = [op |-> "none"]
        /\ freq_file = FreqMapFile
        /\ pattern_file \in PatternFiles
        /\ guesses = <<>>
        /\ answer \in Range(DICT_ANSWERS)
        /\ game_over = FALSE
        /\ game_won = FALSE
        /\ table = initialize_table
        /\ priors = pr.priors
        /\ next_guess_map = {}
        /\ patterns = <<>>
        /\ possibilities = InitialPossibilities(pr.priors).result
        /\ suggestions = DefaultSuggestions
        /\ st_error = ""
        /\ run_error = ""
        /\ rendered = TRUE
        /\ optimal_calls = <<>>
        /\ returned = <<>>
        /\ pattern_calls = {}

\* the user enters a text in the guess field: input_guess runs as the
\* on_change callback, then the script reruns.  An exception in the callback
\* ends the run before the script body.
\* texts are the texts the user may type; no text is submitted once guesses
\* holds max_guesses entries or patterns max_patterns entries.
SubmitOf(texts, max_guesses, max_patterns) ==
    \E typed \in texts :
        \E cb \in {input_guess(typed, guesses, table, answer, game_over,
                                game_won)} :
            /\ rendered /\ ~game_over
            /\ Len(guesses) < max_guesses /\ Len(patterns) < max_patterns
            /\ guesses' = cb.guesses
            /\ table' = cb.table
            /\ game_over' = cb.game_over
            /\ game_won' = cb.game_won
            /\ st_error' = cb.st_error
            /\ IF cb.err /= ""
               THEN /\ run_error' = cb.err
                    /\ rendered' = FALSE
                    /\ UNCHANGED <<pattern_file, patterns, possibilities,
                                   next_guess_map, suggestions, history>>
               ELSE /\ rendered' = TRUE
                    /\ \E top \in BodyChoices(cb.guesses) :
                            ScriptBody(cb.guesses, top)
            /\ UNCHANGED <<io, freq_file, answer, priors>>

Submit == SubmitOf(TypedGuesses, MaxGuesses, MaxPatterns)

\* any other interaction (the checkbox, another tab's field, the Rerun
\* command): the script reruns with no callback
Rerun ==
    /\ Len(patterns) < MaxPatterns
    /\ st_error' = ""
    /\ rendered' = TRUE
    /\ \E top \in BodyChoices(guesses) : ScriptBody(guesses, top)
    /\ UNCHANGED <<io, freq_file, guesses, table, game_over, game_won, answer,
                   priors>>

\* the Restart Game button: the session is reset and st.rerun() starts a
\* run that finds no guess
Restart ==
    /\ rendered
    /\ guesses' = <<>>
    /\ table' = initialize_table
    /\ game_over' = FALSE
    /\ game_won' = FALSE
    /\ st_error' = ""
    /\ rendered' = TRUE
    /\ \E pr \in {get_frequency_based_priors(freq_file, N_COMMON,
                                              WIDTH_UNDER_SIGMOID)} :
        IF pr.err /= ""
        THEN /\ run_error' = pr.err
             /\ UNCHANGED <<priors, next_guess_map, patterns, possibilities,
                            suggestions>>
        ELSE /\ priors' = pr.priors
             /\ next_guess_map' = {}
             /\ patterns' = <<>>
             /\ \E ip \in {InitialPossibilities(pr.priors)} :
                    IF ip.err /= ""
                    THEN /\ run_error' = ip.err
                         /\ UNCHANGED <<possibilities, suggestions>>
                    ELSE /\ run_error' = ""
                         /\ possibilities' = ip.result
                         /\ suggestions' = DefaultSuggestions
    /\ optimal_calls' = <<>>
    /\ returned' = <<>>
    /\ pattern_calls' = {}
    /\ answer' \in Range(DICT_ANSWERS)
    /\ UNCHANGED <<io, freq_file, pattern_file>>

Next == Submit \/ Rerun \/ Restart

Spec == Init /\ [][Next]_vars

----------------------------------------------------------------------------
(* Specification of the pattern engine on its own: any guess and answer of  *)
(* WordLength letters over Letters.                                         *)

\* Init draws the arguments; the action is the call.
\* a specification of single engine calls leaves the session empty
NoSession ==
    /\ guesses = <<>>
    /\ patterns = <<>>
    /\ possibilities = <<>>
    /\ next_guess_map = {}
    /\ game_over = FALSE
    /\ game_won = FALSE
    /\ answer = NoWord
    /\ priors = <<>>
    /\ suggestions = <<>>
    /\ table = <<>>
    /\ st_error = ""
    /\ run_error = ""
    /\ rendered = FALSE

NoHistory ==
    /\ optimal_calls = <<>>
    /\ returned = <<>>
    /\ pattern_calls = {}

InitPattern ==
    /\ \E g \in AllWords, a \in AllWords :
            io = [op |-> "args", guess |-> g, answer |-> a]
    /\ pattern_file = AbsentFile
    /\ freq_file = FreqMapFile
    /\ NoSession
    /\ NoHistory

CallGeneratePatternMatrix ==
    /\ io.op = "args"
    /\ io' = [op |-> "generate_pattern_matrix",
              guess |-> io.guess,
              answer |-> io.answer,
              result |-> generate_pattern_matrix(<<io.guess>>, <<io.answer>>)]
    /\ UNCHANGED <<pattern_file, freq_file, session, history>>

NextPattern == CallGeneratePatternMatrix

SpecPattern == InitPattern /\ [][NextPattern]_vars

\* C1: for every guess and answer of five letters, entry [0, 0] of
\* generate_pattern_matrix([guess], [answer]) is the base-3 number of the
\* standard two-pass colouring (first letter least significant), a value in
\* 0..242 that the uint8 arithmetic does not wrap.
C1_PatternIsStandardColouring ==
    io.op = "generate_pattern_matrix" =>
        /\ io.result[1][1] = StandardPattern(io.guess, io.answer)
        /\ io.result[1][1] \in 0..242

\* a call whose guess repeats a letter the answer holds once: the first
\* occurrence is coloured misplaced, the second stays grey
C1_Witness ==
    /\ io.op = "generate_pattern_matrix"
    /\ \E i, j \in 1..WordLength :
            /\ i < j
            /\ io.guess[i] = io.guess[j]
            /\ Cardinality({k \in 1..WordLength :
                                io.answer[k] = io.guess[i]}) = 1
            /\ pattern_to_int_list(io.result[1][1])[i] = MISPLACED
            /\ pattern_to_int_list(io.result[1][1])[j] = 0

----------------------------------------------------------------------------
(* Specification of the possibility reducer on its own: one call of         *)
(* get_possible_words, and a second call on the list the first returned.    *)

\* longest word list drawn, besides the whole corpus
MaxList == 2

\* words the drawn lists are made of, repetitions and any order included
ReduceWords ==
    { <<"T","R","A","C","E">>, <<"S","T","A","R","E">>,
      <<"R","A","I","S","E">>, <<"A","R","O","S","E">> }

ReduceLists ==
    {WordListFile} \cup UNION {[1..n -> ReduceWords] : n \in 0..MaxList}

\* guesses drawn: words of the corpus and one word outside it
ReduceGuesses ==
    { <<"T","R","A","C","E">>, <<"R","A","I","S","E">>,
      <<"A","R","O","S","E">>, <<"S","P","E","E","D">> }

\* patterns drawn for a guess: those some word produces, and all grey
ReducePatterns(guess) ==
    {0} \cup {generate_pattern_matrix(<<guess>>, <<w>>)[1][1] : w \in ReduceWords}

InitReduce ==
    /\ \E g \in ReduceGuesses, l \in ReduceLists :
        \E p \in ReducePatterns(g) :
            io = [op |-> "args", guess |-> g, pattern |-> p, word_list |-> l]
    /\ pattern_file \in PatternFiles
    /\ freq_file = FreqMapFile
    /\ NoSession
    /\ NoHistory

\* result = get_possible_words(guess, pattern, word_list), then
\* again = get_possible_words(guess, pattern, result), in one script run
CallGetPossibleWords ==
    /\ io.op = "args"
    /\ \E once \in {get_possible_words(
                        [file |-> pattern_file, data |-> EmptyGridData],
                        io.guess, io.pattern, io.word_list)} :
        \E twice \in {get_possible_words(once.env, io.guess, io.pattern,
                                         once.result)} :
            /\ io' = [op |-> "get_possible_words", guess |-> io.guess,
                      pattern |-> io.pattern, word_list |-> io.word_list,
                      err |-> once.err, result |-> once.result,
                      again |-> [err |-> twice.err, result |-> twice.result]]
            /\ pattern_file' = twice.env.file
    /\ UNCHANGED <<freq_file, session, history>>

NextReduce == CallGetPossibleWords

SpecReduce == InitReduce /\ [][NextReduce]_vars

\* C2: a call of get_possible_words that returns gives exactly the words w
\* of word_list with pattern_of(guess, w) = pattern, in their order, so never
\* more than word_list holds; a second call on the result returns the same.
C2_ExactFilter ==
    (io.op = "get_possible_words" /\ io.err = "") =>
        /\ io.result = SelectSeq(io.word_list,
                LAMBDA w : StandardPattern(io.guess, w) = io.pattern)
        /\ Len(io.result) <= Len(io.word_list)
        /\ io.again.err = ""
        /\ io.again.result = io.result

----------------------------------------------------------------------------
(* Specification of the pattern matrix cache on its own: one call of        *)
(* get_pattern_matrix on words of the corpus, in a run that finds any of    *)
(* PatternFiles on disk.                                                    *)

CacheRows == {WordListFile} \cup {<<w>> : w \in Range(WordListFile)}

InitCache ==
    /\ \E w1 \in CacheRows, w2 \in ReduceLists :
            io = [op |-> "args", words1 |-> w1, words2 |-> w2]
    /\ pattern_file \in PatternFiles
    /\ freq_file = FreqMapFile
    /\ NoSession
    /\ NoHistory

CallGetPatternMatrix ==
    /\ io.op = "args"
    /\ \E m \in {get_pattern_matrix(
                    [file |-> pattern_file, data |-> EmptyGridData],
                    io.words1, io.words2)} :
            /\ io' = [op |-> "get_pattern_matrix", words1 |-> io.words1,
                      words2 |-> io.words2, err |-> m.err,
                      result |-> m.result]
            /\ pattern_file' = m.env.file
    /\ UNCHANGED <<freq_file, session, history>>

NextCache == CallGetPatternMatrix

SpecCache == InitCache /\ [][NextCache]_vars

\* C10: whatever file the run finds, matching the corpus or not,
\* get_pattern_matrix returns for words of the corpus the values of the direct
\* computation generate_pattern_matrix, and leaves on disk the matrix of the
\* current corpus.
C10_StaleCacheRegenerated ==
    io.op = "get_pattern_matrix" =>
        /\ io.err = ""
        /\ io.result = generate_pattern_matrix(io.words1, io.words2)
        /\ pattern_file = BuiltPatternFile

----------------------------------------------------------------------------
(* Specification of the session start on its own: the session state         *)
(* initialization block in a run that finds a frequency table holding all   *)
(* or all but a few words of the corpus, then calls of get_weights with the *)
(* session's priors.                                                        *)

\* most corpus words a drawn frequency table lacks
MaxMissing == 1

\* data/freq_map.json without the words of missing
FreqFileWithout(missing) ==
    [exists |-> TRUE,
     map |-> SelectSeq(FreqMapFile.map, LAMBDA e : e.word \notin missing)]

FreqFiles ==
    {FreqFileWithout(missing) :
        missing \in {m \in SUBSET Range(WordListFile) :
                        Cardinality(m) <= MaxMissing}}

\* word lists get_weights is called with: the leading words of the corpus
WeightLists == {SubSeq(DICT_ANSWERS, 1, n) : n \in 0..Len(DICT_ANSWERS)}

InitStart ==
    /\ io = [op |-> "none"]
    /\ freq_file \in FreqFiles
    /\ pattern_file = AbsentFile
    /\ NoSession
    /\ NoHistory

\* the block under 'if "guesses" not in st.session_state', which an
\* exception leaves half done
StartSession ==
    /\ io.op = "none"
    /\ io' = [op |-> "session"]
    /\ guesses' = <<>>
    /\ game_over' = FALSE
    /\ game_won' = FALSE
    /\ table' = initialize_table
    /\ st_error' = ""
    /\ \E pr \in {get_frequency_based_priors(freq_file, N_COMMON,
                                              WIDTH_UNDER_SIGMOID)} :
        IF pr.err /= ""
        THEN /\ run_error' = pr.err
             /\ rendered' = FALSE
             /\ UNCHANGED <<priors, next_guess_map, patterns, possibilities,
                            suggestions>>
        ELSE /\ priors' = pr.priors
             /\ next_guess_map' = {}
             /\ patterns' = <<>>
             /\ \E ip \in {InitialPossibilities(pr.priors)} :
                    IF ip.err /= ""
                    THEN /\ run_error' = ip.err
                         /\ rendered' = FALSE
                         /\ UNCHANGED <<possibilities, suggestions>>
                    ELSE /\ run_error' = ""
                         /\ rendered' = TRUE
                         /\ possibilities' = ip.result
                         /\ suggestions' = DefaultSuggestions
    /\ answer' \in Range(DICT_ANSWERS)
    /\ UNCHANGED <<freq_file, pattern_file, history>>

CallGetWeights ==
    /\ io.op = "session"
    /\ priors /= <<>>
    /\ \E words \in WeightLists :
        \E w \in {get_weights(words, priors)} :
            io' = [op |-> "get_weights", words |-> words, err |-> w.err,
                   weights |-> w.weights]
    /\ UNCHANGED <<freq_file, pattern_file, session, history>>

NextStart == StartSession \/ CallGetWeights

SpecStart == InitStart /\ [][NextStart]_vars

\* C9: a corpus word the frequency table lacks counts as prior 0 without any
\* error: the session start completes and leaves it out of possibilities,
\* and get_weights completes and gives it weight 0.
C9_AbsentWordHasPriorZero ==
    /\ io.op = "session" =>
        /\ run_error = ""
        /\ possibilities =
                SelectSeq(DICT_ANSWERS,
                          LAMBDA w : w \in DOMAIN priors /\ priors[w] > 0)
    /\ io.op = "get_weights" =>
        /\ io.err = ""
        /\ \A k \in 1..Len(io.words) :
                io.words[k] \notin DOMAIN priors => io.weights[k] = 0

----------------------------------------------------------------------------
(* Claims about the game specification Spec.                                *)

\* C3: the answer, a member of the initial possibilities, stays a member of
\* possibilities through every accepted guess and every script rerun; so when
\* possibilities holds one word, that word is the answer.
C3_AnswerStaysPossible ==
    /\ \E k \in 1..Len(possibilities) : possibilities[k] = answer
    /\ Len(possibilities) = 1 => possibilities[1] = answer

\* C4: a submission of a word outside the allowed-guess corpus is reported
\* and leaves guesses, patterns, possibilities, next_guess_map, game_over and
\* game_won as they were, the script run it triggers included.
C4_UnknownWordLeavesState ==
    [][st_error' = "Please enter a valid guess." =>
            UNCHANGED <<guesses, patterns, possibilities, next_guess_map,
                        game_over, game_won>>]_vars

\* C5: a submission whose length is not WordLength is rejected before any
\* pattern computation: get_pattern is not invoked with it and no pattern is
\* recorded for it.
C5_WrongLengthNeverScored ==
    [][st_error' = "Please enter a 5-letter word." =>
            /\ guesses'[Len(guesses')] \notin pattern_calls'
            /\ patterns' = patterns]_vars

\* C6: when optimal_guess has scored the allowed guesses against two or more
\* possibilities, get_stats lists from the session's suggestions ten
\* different allowed guesses, none scored below an unlisted one, in descending
\* order of bits, each with the entropy of that very word.
C6_SuggestionsTopTen ==
    [][(/\ Len(optimal_calls') > Len(optimal_calls)
        /\ Len(possibilities') >= 2
        /\ run_error' = "") =>
            LET ents == Scores([file |-> pattern_file', data |-> EmptyGridData],
                               DICT_ANSWERS, possibilities', priors').ents
                stats == get_stats(suggestions')
                listed == {IndexOf(DICT_ANSWERS, upper(stats.picks[k])) :
                                k \in 1..Len(stats.picks)}
            IN  /\ Len(stats.picks) = TOP_N
                /\ \A k \in 1..Len(stats.picks) :
                        upper(stats.picks[k]) \in Range(DICT_ANSWERS)
                /\ Cardinality(listed) = TOP_N
                /\ \A a \in listed, b \in (1..Len(ents)) \ listed :
                        ents[a] >= ents[b]
                /\ \A k \in 1..(Len(stats.bits) - 1) :
                        stats.bits[k] >= stats.bits[k + 1]
                /\ \A k \in 1..Len(stats.picks) :
                        stats.bits[k] =
                            ents[IndexOf(DICT_ANSWERS, upper(stats.picks[k]))]
       ]_vars

\* C8: a run whose narrowing leaves no possibility reports an error, returns
\* no recommended guess and stores none in next_guess_map.
C8_EmptySetSurfaced ==
    [][possibilities' = <<>> =>
            /\ run_error' /= ""
            /\ next_guess_map' = next_guess_map
            /\ returned' = returned]_vars

\* C7: between resets of next_guess_map, two calls of get_next_guess for the
\* same history (the (guess, pattern) pairs zip forms, which the key spells
\* out) return the same guess; optimal_guess is invoked at most once per
\* history, and only for a history whose key next_guess_map does not hold.
C7_Memoized ==
    /\ \A i, j \in 1..Len(returned) :
            returned[i].key = returned[j].key =>
                returned[i].guess = returned[j].guess
    /\ \A i, j \in 1..Len(optimal_calls) :
            optimal_calls[i].key = optimal_calls[j].key => i = j
    /\ \A i \in 1..Len(optimal_calls) : ~optimal_calls[i].cached

\* get_next_guess has returned twice for one history, with one call of
\* optimal_guess
C7_Witness ==
    \E i, j \in 1..Len(returned) :
        /\ i < j
        /\ returned[i].key = returned[j].key
        /\ Cardinality({k \in 1..Len(optimal_calls) :
                            optimal_calls[k].key = returned[i].key}) = 1

----------------------------------------------------------------------------
(* Specification of concurrent script runs: Streamlit runs the script of    *)
(* each session in a thread of its own, with its own module globals, so     *)
(* each run starts get_pattern_matrix with an empty PATTERN_GRID_DATA and   *)
(* shares only the file on disk with the others.  The steps of one call are *)
(* interleaved with those of the other runs.                                *)

\* how many sessions call get_pattern_matrix at the same time
NumSessions == 2

Sessions == 1..NumSessions

\* the file while np.save has opened it for writing and not yet written it
TruncatedFile == [exists |-> TRUE, grid |-> <<>>]

InitBuild ==
    /\ \E w1 \in [Sessions -> CacheRows] :
            io = [op |-> "concurrent",
                  pc |-> [s \in Sessions |-> "call"],
                  words1 |-> w1,
                  builds |-> 0,
                  err |-> [s \in Sessions |-> ""],
                  result |-> [s \in Sessions |-> <<>>]]
    /\ pattern_file \in {AbsentFile, BuiltPatternFile}
    /\ freq_file = FreqMapFile
    /\ NoSession
    /\ NoHistory

\* 'if not PATTERN_GRID_DATA: if not os.path.exists(PATTERN_MATRIX_FILE)'
CheckExists(s) ==
    /\ io.op = "concurrent"
    /\ io.pc[s] = "call"
    /\ io' = [io EXCEPT !.pc[s] = IF pattern_file.exists THEN "load"
                                  ELSE "generate"]
    /\ UNCHANGED <<pattern_file, freq_file, session, history>>

\* generate_full_pattern_matrix, up to the call of np.save: the matrix is
\* computed in memory
BuildMatrix(s) ==
    /\ io.op = "concurrent"
    /\ io.pc[s] = "generate"
    /\ io' = [io EXCEPT !.pc[s] = "save", !.builds = @ + 1]
    /\ UNCHANGED <<pattern_file, freq_file, session, history>>

\* np.save opens the file for writing, which creates or truncates it
SaveOpen(s) ==
    /\ io.op = "concurrent"
    /\ io.pc[s] = "save"
    /\ io' = [io EXCEPT !.pc[s] = "write"]
    /\ pattern_file' = TruncatedFile
    /\ UNCHANGED <<freq_file, session, history>>

\* np.save writes the matrix and closes the file; when another run has the
\* file open for writing too, what the file holds afterwards is open
SaveWrite(s) ==
    /\ io.op = "concurrent"
    /\ io.pc[s] = "write"
    /\ io' = [io EXCEPT !.pc[s] = "load"]
    /\ pattern_file' \in
            IF \E t \in Sessions \ {s} : io.pc[t] = "write"
            THEN {BuiltPatternFile, TruncatedFile}
            ELSE {BuiltPatternFile}
    /\ UNCHANGED <<freq_file, session, history>>

\* np.load, the word index and the selection of the rows and columns asked
\* for; np.load raises on a file that is not written yet
LoadAndSelect(s) ==
    /\ io.op = "concurrent"
    /\ io.pc[s] = "load"
    /\ IF pattern_file.grid = <<>>
       THEN io' = [io EXCEPT !.pc[s] = "done", !.err[s] = "ValueError"]
       ELSE \E m \in {get_pattern_matrix(
                        [file |-> pattern_file,
                         data |-> [loaded |-> TRUE, grid |-> pattern_file.grid,
                                   words |-> get_word_list]],
                        io.words1[s], get_word_list)} :
                io' = [io EXCEPT !.pc[s] = "done", !.err[s] = m.err,
                                 !.result[s] = m.result]
    /\ UNCHANGED <<pattern_file, freq_file, session, history>>

NextBuild ==
    \E s \in Sessions :
        \/ CheckExists(s)
        \/ BuildMatrix(s)
        \/ SaveOpen(s)
        \/ SaveWrite(s)
        \/ LoadAndSelect(s)

SpecBuild == InitBuild /\ [][NextBuild]_vars

\* C11: when sessions call get_pattern_matrix at the same time while the
\* matrix file is absent, generate_full_pattern_matrix is executed at most
\* once in total.
C11_BuildAtMostOnce ==
    io.op = "concurrent" => io.builds <= 1

----------------------------------------------------------------------------
(* Specification of the frequency prior model on its own: one call of       *)
(* get_frequency_based_priors on a frequency table of distinct frequencies, *)
(* with n_common between 1 and the size of the table.                       *)

\* most words a drawn frequency table holds
MaxFreqWords == 4

\* the frequency tables of n words: the first n corpus words in key order,
\* their frequencies the numbers 1..n in any order
FreqTables(n) ==
    {[exists |-> TRUE,
      map |-> [k \in 1..n |-> [word |-> WordListFile[k], freq |-> f[k]]]] :
        f \in {g \in [1..n -> 1..n] : \A i, j \in 1..n : g[i] = g[j] => i = j}}

InitPriors ==
    /\ \E n \in 1..MaxFreqWords :
        /\ freq_file \in FreqTables(n)
        /\ \E c \in 1..n : io = [op |-> "args", n_common |-> c]
    /\ pattern_file = AbsentFile
    /\ NoSession
    /\ NoHistory

CallGetFrequencyBasedPriors ==
    /\ io.op = "args"
    /\ \E pr \in {get_frequency_based_priors(freq_file, io.n_common,
                                              WIDTH_UNDER_SIGMOID)} :
            io' = [op |-> "get_frequency_based_priors",
                   n_common |-> io.n_common, err |-> pr.err,
                   priors |-> pr.priors]
    /\ UNCHANGED <<pattern_file, freq_file, session, history>>

NextPriors == CallGetFrequencyBasedPriors

SpecPriors == InitPriors /\ [][NextPriors]_vars

\* the frequency of word w in the table on disk
FreqOf(w) == (CHOOSE e \in Range(freq_file.map) : e.word = w).freq

\* the words whose prior is strictly above 1/2, that is, whose x is positive
AboveHalf == {w \in DOMAIN io.priors : io.priors[w] > sigmoid(0, 1)}

\* C12: for a table of N >= 1 words with distinct frequencies and
\* 1 <= n_common <= N, exactly n_common words get a prior strictly above 1/2
\* (x > 0), and they are the n_common words of highest frequency.
C12_TopCommonArePositive ==
    io.op = "get_frequency_based_priors" =>
        /\ io.err = ""
        /\ Cardinality(AboveHalf) = io.n_common
        /\ \A w \in AboveHalf, v \in DOMAIN io.priors \ AboveHalf :
                FreqOf(w) > FreqOf(v)

----------------------------------------------------------------------------
(* Specification of the frequency table on its own: one call of             *)
(* get_word_frequencies in a run that finds data/freq_map.json absent or    *)
(* holding some table.                                                      *)

AbsentFreqFile == [exists |-> FALSE, map |-> <<>>]

\* what may be on disk at data/freq_map.json when a run starts
FreqFilesOnDisk ==
    {AbsentFreqFile} \cup FreqFiles
        \cup UNION {FreqTables(n) : n \in 1..MaxFreqWords}

InitFreq ==
    /\ \E r \in BOOLEAN : io = [op |-> "args", regenerate |-> r]
    /\ freq_file \in FreqFilesOnDisk
    /\ pattern_file = AbsentFile
    /\ NoSession
    /\ NoHistory

\* an exception leaves the file as it was: json.dump is not reached
CallGetWordFrequencies ==
    /\ io.op = "args"
    /\ \E f \in {get_word_frequencies(freq_file, io.regenerate)} :
            io' = [op |-> "get_word_frequencies",
                   regenerate |-> io.regenerate, before |-> freq_file,
                   err |-> f.err, map |-> f.map]
    /\ UNCHANGED <<pattern_file, freq_file, session, history>>

NextFreq == CallGetWordFrequencies

SpecFreq == InitFreq /\ [][NextFreq]_vars

\* C13: get_word_frequencies returns without error; when the file was absent
\* the map it returns has been rebuilt and is on disk afterwards; when the
\* file was present its map is returned and the file is left as it was.
C13_FrequenciesRebuiltOrLoaded ==
    (io.op = "get_word_frequencies" /\ ~io.regenerate) =>
        /\ io.err = ""
        /\ freq_file.exists
        /\ io.map = freq_file.map
        /\ io.before.exists => freq_file = io.before

----------------------------------------------------------------------------
(* Specification of the entropy scorer on its own: one call of              *)
(* get_entropies for every word of the corpus as guess, a possibility list  *)
(* of corpus words and non-negative weights, in a run that finds any of     *)
(* PatternFiles on disk.                                                    *)

\* longest possibility list drawn
MaxPoss == 3

\* largest weight drawn
MaxWeight == 2

EntropyLists == UNION {[1..n -> ReduceWords] : n \in 0..MaxPoss}

InitEntropy ==
    /\ \E l \in EntropyLists :
        \E w \in [1..Len(l) -> 0..MaxWeight] :
            io = [op |-> "args", possible_words |-> l, weights |-> w]
    /\ pattern_file \in PatternFiles
    /\ freq_file = FreqMapFile
    /\ NoSession
    /\ NoHistory

CallGetEntropies ==
    /\ io.op = "args"
    /\ \E e \in {get_entropies(
                    [file |-> pattern_file, data |-> EmptyGridData],
                    DICT_ANSWERS, io.possible_words, io.weights)} :
            /\ io' = [op |-> "get_entropies",
                      allowed_words |-> DICT_ANSWERS,
                      possible_words |-> io.possible_words,
                      weights |-> io.weights, err |-> e.err, ents |-> e.ents]
            /\ pattern_file' = e.env.file
    /\ UNCHANGED <<freq_file, session, history>>

NextEntropy == CallGetEntropies

SpecEntropy == InitEntropy /\ [][NextEntropy]_vars

\* the pattern buckets the possibilities of non-zero weight fall into for
\* the guess
BucketsOf(guess) ==
    {StandardPattern(guess, io.possible_words[k]) :
        k \in {j \in 1..Len(io.possible_words) : io.weights[j] > 0}}

\* C14: for every guess, possibility list and non-negative weights,
\* get_entropies gives the guess an entropy >= 0 that is 0 exactly when all
\* possibilities of non-zero weight fall into one pattern bucket for the
\* guess; with total weight 0 the entropy is 0 and nothing is raised.
C14_EntropyZeroIffOneBucket ==
    io.op = "get_entropies" =>
        /\ io.err = ""
        /\ \A a \in 1..Len(io.allowed_words) :
            /\ io.ents[a] >= 0
            /\ io.ents[a] = 0 <=>
                    Cardinality(BucketsOf(io.allowed_words[a])) <= 1

----------------------------------------------------------------------------
(* Specification of the guess selector on its own: one call of              *)
(* optimal_guess on an allowed list, a possibility list and priors, in a    *)
(* run that finds any of PatternFiles on disk.                              *)

\* allowed lists drawn: the leading words of the corpus, none, a few, one
\* less than the listing holds, as many, and all
AllowedLists ==
    {SubSeq(WordListFile, 1, n) :
        n \in {0, 1, 2, TOP_N - 1, TOP_N, Len(WordListFile)}}

\* possibility lists drawn: words of the corpus, some of which the first
\* allowed words do not tell apart, and one word outside the corpus
SelectWords ==
    { <<"T","R","A","C","E">>, <<"S","T","A","R","E">>,
      <<"S","N","A","R","E">>, <<"A","R","O","S","E">>,
      <<"A","R","I","S","E">>, <<"S","P","E","E","D">> }

SelectLists == UNION {[1..n -> SelectWords] : n \in 0..MaxPoss}

\* priors drawn: those of the shipped table, with few and with all words
\* counted as common
SelectPriors ==
    {get_frequency_based_priors(FreqMapFile, c, WIDTH_UNDER_SIGMOID).priors :
        c \in {3, N_COMMON}}

InitSelect ==
    /\ \E a \in AllowedLists, l \in SelectLists, pr \in SelectPriors :
            io = [op |-> "args", allowed_words |-> a, possible_words |-> l,
                  priors |-> pr]
    /\ pattern_file \in PatternFiles
    /\ freq_file = FreqMapFile
    /\ NoSession
    /\ NoHistory

CallOptimalGuess ==
    /\ io.op = "args"
    /\ \E top \in TopChoices([file |-> pattern_file, data |-> EmptyGridData],
                             io.allowed_words, io.possible_words, io.priors) :
        \E o \in {optimal_guess(
                    [file |-> pattern_file, data |-> EmptyGridData],
                    io.allowed_words, io.possible_words, io.priors,
                    <<>>, top)} :
            /\ io' = [op |-> "optimal_guess",
                      allowed_words |-> io.allowed_words,
                      possible_words |-> io.possible_words,
                      priors |-> io.priors, err |-> o.err,
                      result |-> o.result, suggestions |-> o.suggestions,
                      file_before |-> pattern_file]
            /\ pattern_file' = o.env.file
    /\ UNCHANGED <<freq_file, session, history>>

NextSelect == CallOptimalGuess

SpecSelect == InitSelect /\ [][NextSelect]_vars

\* the entropy of guess against the possibilities of the call, weighted by
\* the priors of the call: the entropy of the distribution of
\* pattern_of(guess, w) over the possibilities w, 0 when the total weight is 0
EntropyOf(guess) ==
    LET row == [k \in 1..Len(io.possible_words) |->
                    StandardPattern(guess, io.possible_words[k])]
        weights == [k \in 1..Len(io.possible_words) |->
                        io.priors[io.possible_words[k]]]
    IN  IF SumSeq(weights) = 0 THEN 0
        ELSE entropy(Distribution(row, weights))

\* C15: when two or more possibilities remain, the word optimal_guess
\* returns has an entropy at least that of every allowed word, and is the
\* first of the allowed list among the words of maximal entropy.
C15_ReturnsFirstMaximum ==
    (io.op = "optimal_guess" /\ Len(io.possible_words) >= 2 /\ io.err = "") =>
        \E i \in 1..Len(io.allowed_words) :
            /\ io.result = io.allowed_words[i]
            /\ \A j \in 1..Len(io.allowed_words) :
                    EntropyOf(io.allowed_words[j]) <= EntropyOf(io.result)
            /\ \A j \in 1..(i - 1) :
                    EntropyOf(io.allowed_words[j]) < EntropyOf(io.result)

\* C16: for any allowed list, any priors and a possibility list of exactly
\* one word W, optimal_guess returns W, whether or not W is an allowed word,
\* and computes no weights and no entropies: nothing is raised for a W the
\* priors or the corpus lack, the suggestions are left as they were and the
\* pattern matrix file is neither generated nor read.
C16_SingleCandidateShortcut ==
    (io.op = "optimal_guess" /\ Len(io.possible_words) = 1) =>
        /\ io.err = ""
        /\ io.result = io.possible_words[1]
        /\ io.suggestions = <<>>
        /\ pattern_file = io.file_before

\* a call whose single possibility is neither an allowed word nor a word of
\* the priors, made while the matrix file is absent, has returned it
C16_Witness ==
    /\ io.op = "optimal_guess"
    /\ Len(io.possible_words) = 1
    /\ io.possible_words[1] \notin Range(io.allowed_words)
    /\ io.possible_words[1] \notin DOMAIN io.priors
    /\ io.allowed_words /= <<>>
    /\ ~io.file_before.exists
    /\ io.result = io.possible_words[1]

\* C19: for every non-empty allowed list and every possibility list of two
\* or more words of the corpus, optimal_guess returns an allowed word, also
\* when the allowed list holds fewer than ten words: it then records one
\* recommendation per allowed word and raises no IndexError.
C19_ShortAllowedListServed ==
    (/\ io.op = "optimal_guess"
     /\ io.allowed_words /= <<>>
     /\ Len(io.possible_words) >= 2
     /\ Range(io.possible_words) \subseteq Range(DICT_ANSWERS)) =>
        /\ io.err = ""
        /\ io.result \in Range(io.allowed_words)
        /\ Len(io.suggestions) = Min({Len(io.allowed_words), TOP_N})

----------------------------------------------------------------------------
(* Further claims about the game specification Spec.                        *)

\* C17: at the end of every script run the play history is aligned:
\* patterns holds as many entries as guesses, and patterns[i] is the pattern
\* of guesses[i] against the current answer.
C17_HistoryAligned ==
    /\ Len(patterns) = Len(guesses)
    /\ \A i \in 1..Len(guesses) :
            Len(guesses[i]) = WordLength =>
                patterns[i] = StandardPattern(guesses[i], answer)

----------------------------------------------------------------------------
(* Specification of one whole game: guess after guess is submitted, valid   *)
(* or not, until the guess field is gone or the bound is met.               *)

\* no text is submitted once guesses holds MaxTurns entries
MaxTurns == 7

\* the texts typed in a whole game: a word of the corpus and a five-letter
\* word not in the corpus
TurnGuesses == { <<"r","a","i","s","e">>, <<"S","P","E","E","D">> }

SubmitTurn == SubmitOf(TurnGuesses, MaxTurns, MaxTurns)

NextTurns == SubmitTurn

SpecTurns == Init /\ [][NextTurns]_vars

\* C18: in one game, whatever is submitted, guesses never holds more than 6
\* entries, game_over is true whenever it holds 6, and input_guess is never
\* led to a table row beyond 'Guess 6'.
C18_AtMostSixGuesses ==
    /\ Len(guesses) <= 6
    /\ Len(guesses) = 6 => game_over
    /\ run_error = "KeyError" => rendered

=============================================================================
